---- MODULE Spec2Model ----
(***************************************************************************)
(* Model of the data synchronisation core of wandb-tui (package src/run):  *)
(* the Filter engine (filter.py), the runs model WandbRunsModel and the    *)
(* data source WandbApiDataSource (models.py), the load orchestrator       *)
(* RunService (services.py) and the observer DataObserverImpl with the     *)
(* foreground callbacks of RunsController (controllers.py).                *)
(*                                                                         *)
(* Two specifications are given.  SpecModel drives the public methods of   *)
(* a freshly constructed WandbRunsModel (no observer registered) from one  *)
(* thread.  Spec is the assembled program: background worker threads run   *)
(* load cycles, every DataObserverImpl callback hands its UI work to the   *)
(* foreground with call_from_thread, and the foreground drains those calls *)
(* and handles filter edits.                                               *)
(***************************************************************************)
EXTENDS Naturals, Sequences, FiniteSets

VARIABLES
    runs,           \* WandbRunsModel.runs
    runsCycle,      \* history: for each element of runs, the load cycle that appended it
    modelExp,       \* WandbRunsModel._filter.exp
    svcExp,         \* RunService._filter.exp
    observers,      \* WandbRunsModel._observers
    filterError,    \* the error argument of the last notify_filter_changed call
    edits,          \* history: the filter edits made, each with its entry point and text
    found,          \* the result of the last find_run_by_id call
    pc,             \* per worker thread: position in its load call
    entry,          \* per worker thread: the load entry point it is running
    cyc,            \* per worker thread: history, number of its load cycle
    count,          \* per worker thread: the local variable count
    fetched,        \* per worker thread: history, records the repository yielded this cycle
    note,           \* per worker thread: the notification being delivered
    idx,            \* per worker thread: position of the observer loop in _observers
    calls,          \* per worker thread: call_from_thread calls left in the running handler
    posted,         \* per worker thread: the head of calls is in flight on the marshal queue
    escaped,        \* per worker thread: the exception that left its last load call
    marshal,        \* calls handed to the foreground by call_from_thread, FIFO
    table,          \* rows of RunsTableView
    loadingVisible, \* LoadingView.display
    tableStatus,    \* text of the table status bar
    editorStatus,   \* text of the editor status bar
    notices,        \* number of app.notify error notices shown
    events,         \* per worker thread: history, notifications of its load cycle, in order
    ncycles,        \* history: number of load calls made so far
    rowLog,         \* per worker thread: history, the rows its cycle added to the table
    delivery        \* history: the observer loop of the notification delivered last

vars == <<runs, runsCycle, modelExp, svcExp, observers, filterError, edits, found,
          pc, entry, cyc, count, fetched, note, idx, calls, posted, escaped,
          marshal, table, loadingVisible, tableStatus, editorStatus, notices,
          events, ncycles, rowLog, delivery>>

modelVars == <<runs, runsCycle, modelExp, filterError, edits, found>>
svcVars == <<svcExp>>
threadVars == <<pc, entry, cyc, count, fetched, note, idx, calls, posted, escaped>>
uiVars == <<marshal, table, loadingVisible, tableStatus, editorStatus, notices>>

----------------------------------------------------------------------------
(* Bounds of the model. *)

MaxRuns == 3      \* SpecModel: longest record list
MaxEdits == 2     \* SpecModel: filter edits per behaviour
MaxUiEdits == 1   \* Spec: filter edits per behaviour
MaxCycles == 2    \* Spec: load calls per behaviour
MaxFetch == 2     \* Spec: records one repository sequence yields at most

----------------------------------------------------------------------------
(* RunData, reduced to the attributes the filter and the lookup read. *)

RunData(i, s) == [id |-> i, state |-> s]

Records == {RunData("r1", "finished"), RunData("r1", "running"), RunData("r2", "running")}

RunIds == {"r1", "r2", "r3"}

NoRun == RunData("", "")

(* What the remote project of Spec can hold. *)
RemoteRuns == {RunData("r1", "finished"), RunData("r2", "running")}

----------------------------------------------------------------------------
(* Filter engine.  A query text is a sequence of lexical tokens; " " is a   *)
(* run of whitespace.  The compiled expression is an abstract syntax tree   *)
(* of the JMESPath subset  identifier | identifier == 'literal'.            *)

Space == " "

FilterTexts ==
    { <<>>,
      <<Space>>,
      <<Space, "state", "==", "'running'", Space>>,
      <<"foo">>,
      <<"state", "==">> }

Identifiers == {"id", "state", "foo"}

RawLiterals == {"'running'", "'finished'"}

LiteralValue(tok) == IF tok = "'running'" THEN "running" ELSE "finished"

NoExp == [kind |-> "none", field |-> "", lit |-> ""]

NoError == "none"

RECURSIVE StripLeft(_)
StripLeft(q) == IF q # <<>> /\ Head(q) = Space THEN StripLeft(Tail(q)) ELSE q

RECURSIVE StripRight(_)
StripRight(q) ==
    IF q # <<>> /\ q[Len(q)] = Space THEN StripRight(SubSeq(q, 1, Len(q) - 1)) ELSE q

(* str.strip *)
Strip(q) == StripRight(StripLeft(q))

IsSpace(tok) == tok = Space

NotSpace(tok) == ~IsSpace(tok)

(* jmespath.compile: the lexer skips whitespace; an empty token stream and  *)
(* every stream outside the grammar raise a JMESPathError.                  *)
Compile(q) ==
    LET toks == SelectSeq(q, NotSpace)
    IN  IF Len(toks) = 1 /\ toks[1] \in Identifiers
        THEN [ok |-> TRUE, exp |-> [kind |-> "field", field |-> toks[1], lit |-> ""]]
        ELSE IF Len(toks) = 3 /\ toks[1] \in Identifiers /\ toks[2] = "=="
                /\ toks[3] \in RawLiterals
        THEN [ok |-> TRUE,
              exp |-> [kind |-> "eq", field |-> toks[1], lit |-> LiteralValue(toks[3])]]
        ELSE [ok |-> FALSE, exp |-> NoExp]

(* Filter.__init__: a text that does not compile gives exp = None, silently. *)
FilterInit(q) == Compile(q).exp

(* exp.search(data) for the identifier of the expression: a missing key    *)
(* searches to None, written "" here; both are falsy.                      *)
Search(exp, data) ==
    IF exp.field \in DOMAIN data THEN data[exp.field] ELSE ""

(* Faulty variant of Filter.matches: exp None matches nothing. *)
MatchesNever(exp, data) ==
    IF exp = NoExp THEN FALSE
    ELSE IF exp.kind = "eq" THEN Search(exp, data) = exp.lit
    ELSE Search(exp, data) # ""

(* Filter.matches: bool(exp.search(data)), True when exp is None. *)
FilterMatches(exp, data) ==
    IF exp = NoExp THEN TRUE
    ELSE IF exp.kind = "eq" THEN Search(exp, data) = exp.lit
    ELSE Search(exp, data) # ""

(* Faulty variant of Filter.update_query: the text is not stripped. *)
UpdateQueryNoStrip(old, q) ==
    LET s == q
    IN  IF s = <<>> THEN [exp |-> NoExp, err |-> NoError]
        ELSE IF Compile(s).ok THEN [exp |-> Compile(s).exp, err |-> NoError]
        ELSE [exp |-> NoExp, err |-> "FilterError"]

(* Filter.update_query, as the pair (new exp, error raised): an empty text  *)
(* after strip removes the predicate; a text that does not compile removes  *)
(* it too and raises FilterError.                                           *)
UpdateQuery(old, q) ==
    LET s == Strip(q)
    IN  IF s = <<>> THEN [exp |-> NoExp, err |-> NoError]
        ELSE IF Compile(s).ok THEN [exp |-> Compile(s).exp, err |-> NoError]
        ELSE [exp |-> NoExp, err |-> "FilterError"]

----------------------------------------------------------------------------
(* WandbRunsModel: the read side. *)

(* [run for run in rs if filter.matches(run.dict())] *)
RECURSIVE Comprehension(_, _)
Comprehension(rs, exp) ==
    IF rs = <<>> THEN <<>>
    ELSE IF FilterMatches(exp, Head(rs))
         THEN <<Head(rs)>> \o Comprehension(Tail(rs), exp)
         ELSE Comprehension(Tail(rs), exp)

(* WandbRunsModel.get_filtered_runs *)
GetFilteredRuns == Comprehension(runs, modelExp)

RECURSIVE ScanFrom(_, _, _)
ScanFrom(rs, i, run_id) ==
    IF i > Len(rs) THEN NoRun
    ELSE IF rs[i].id = run_id THEN rs[i]
    ELSE ScanFrom(rs, i + 1, run_id)

RECURSIVE ScanBack(_, _, _)
ScanBack(rs, i, run_id) ==
    IF i < 1 THEN NoRun
    ELSE IF rs[i].id = run_id THEN rs[i]
    ELSE ScanBack(rs, i - 1, run_id)

(* Faulty variant of find_run_by_id: the scan runs from the end. *)
FindLastById(rs, run_id) == ScanBack(rs, Len(rs), run_id)

(* WandbRunsModel.find_run_by_id: the first record with the id, else None. *)
FindRunById(rs, run_id) == ScanFrom(rs, 1, run_id)

----------------------------------------------------------------------------
(* Worker threads, notifications and marshalled calls. *)

Workers == {"w1", "w2"}

(* The threads are interchangeable: a load call takes the first idle one. *)
Before(v, w) == v = "w1" /\ w = "w2"

NoNote == [kind |-> "none", run |-> NoRun, total |-> 0, err |-> NoError]

Note(k, r, n, e) == [kind |-> k, run |-> r, total |-> n, err |-> e]

NoFound == [id |-> "", run |-> NoRun]

Last(s) == s[Len(s)]

(* The state right after WandbRunsModel.__init__, for any filter_text.      *)
InitModelState ==
    /\ runs = <<>>
    /\ runsCycle = <<>>
    /\ \E q \in FilterTexts : modelExp = FilterInit(q)
    /\ filterError = NoError
    /\ edits = <<>>
    /\ found = NoFound

(* RunService.__init__ *)
InitService == svcExp = FilterInit(<<>>)

InitThreads ==
    /\ pc = [w \in Workers |-> "idle"]
    /\ entry = [w \in Workers |-> "none"]
    /\ cyc = [w \in Workers |-> 0]
    /\ count = [w \in Workers |-> 0]
    /\ fetched = [w \in Workers |-> 0]
    /\ note = [w \in Workers |-> NoNote]
    /\ idx = [w \in Workers |-> 0]
    /\ calls = [w \in Workers |-> <<>>]
    /\ posted = [w \in Workers |-> FALSE]
    /\ escaped = [w \in Workers |-> NoError]
    /\ ncycles = 0
    /\ events = [w \in Workers |-> <<>>]

InitUi ==
    /\ marshal = <<>>
    /\ table = <<>>
    /\ loadingVisible = TRUE
    /\ tableStatus = ""
    /\ editorStatus = ""
    /\ notices = 0

(* No notification has been delivered yet. *)
NoDelivery == [n |-> NoNote, start |-> <<>>, log |-> <<>>, state |-> "none"]

InitHistory ==
    /\ rowLog = [w \in Workers |-> <<>>]
    /\ delivery = NoDelivery

(* History predicates over the notifications of one worker's load cycle.   *)
Terminal(e) == e.kind \in {"completed", "failed"}

Active(w) ==
    /\ events[w] # <<>>
    /\ \A i \in 1..Len(events[w]) : ~Terminal(events[w][i])

InFlight == \E w \in Workers : Active(w)

----------------------------------------------------------------------------
(* DataObserverImpl.on_filter_changed, run once per registered observer by  *)
(* notify_filter_changed: it runs on the caller's thread and rebuilds the   *)
(* table from the list it is given.                                         *)
OnFilterChanged(filtered, error) ==
    IF observers = <<>>
    THEN UNCHANGED <<table, editorStatus>>
    ELSE /\ editorStatus' = IF error # NoError THEN "Invalid Filter" ELSE ""
         /\ table' = filtered

----------------------------------------------------------------------------
(* SpecModel: the public methods of WandbRunsModel, called from one thread  *)
(* on a model without observers.                                            *)

(* WandbRunsModel.notify_data_loaded *)
RecordLoaded(r) ==
    /\ Len(runs) < MaxRuns
    /\ runs' = Append(runs, r)
    /\ runsCycle' = Append(runsCycle, 0)
    /\ UNCHANGED <<modelExp, filterError, edits, found, observers>>
    /\ UNCHANGED <<svcVars, threadVars, uiVars, events, ncycles>>
    /\ UNCHANGED <<rowLog, delivery>>

(* Faulty variant of clear_runs: the observer list is emptied too. *)
ClearRunsAndObservers ==
    /\ runs' = <<>>
    /\ runsCycle' = <<>>
    /\ observers' = <<>>
    /\ UNCHANGED <<modelExp, filterError, edits, found>>
    /\ UNCHANGED <<svcVars, threadVars, uiVars, events, ncycles>>
    /\ UNCHANGED <<rowLog, delivery>>

(* WandbRunsModel.clear_runs *)
ClearRuns ==
    /\ runs' = <<>>
    /\ runsCycle' = <<>>
    /\ UNCHANGED <<modelExp, filterError, edits, found, observers>>
    /\ UNCHANGED <<svcVars, threadVars, uiVars, events, ncycles>>
    /\ UNCHANGED <<rowLog, delivery>>

(* WandbRunsModel.edit_filter *)
EditFilter(q) ==
    /\ LET r == UpdateQuery(modelExp, q)
       IN  /\ modelExp' = r.exp
           /\ filterError' = r.err
           /\ OnFilterChanged(Comprehension(runs, r.exp), r.err)
    /\ edits' = Append(edits, [via |-> "model", text |-> q, mid |-> InFlight])
    /\ UNCHANGED <<runs, runsCycle, found, observers>>
    /\ UNCHANGED <<svcVars, threadVars, events, ncycles>>
    /\ UNCHANGED <<marshal, loadingVisible, tableStatus, notices>>
    /\ UNCHANGED <<rowLog, delivery>>

(* WandbRunsModel.find_run_by_id, as RunsController.on_req_copy_url calls it *)
FindById(run_id) ==
    /\ found' = [id |-> run_id, run |-> FindRunById(runs, run_id)]
    /\ UNCHANGED <<runs, runsCycle, modelExp, filterError, edits, observers>>
    /\ UNCHANGED <<svcVars, threadVars, uiVars, events, ncycles>>
    /\ UNCHANGED <<rowLog, delivery>>

InitModel ==
    /\ InitModelState
    /\ observers = <<>>
    /\ InitService
    /\ InitThreads
    /\ InitUi
    /\ InitHistory

NextModel ==
    \/ \E r \in Records : RecordLoaded(r)
    \/ ClearRuns
    \/ \E q \in FilterTexts : Len(edits) < MaxEdits /\ EditFilter(q)
    \/ \E i \in RunIds : FindById(i)

SpecModel == InitModel /\ [][NextModel]_vars

----------------------------------------------------------------------------
(* Spec: the assembled program. *)

Call(o, r) == [op |-> o, run |-> r]

(* History record of one notification: len is the length of the record     *)
(* list when the notify_* method starts its observer loop.                  *)
Event(w, n, len) ==
    [kind |-> n.kind, cyc |-> cyc[w], run |-> n.run, total |-> n.total,
     err |-> n.err, len |-> len]

(* Faulty variant of the DataObserverImpl handlers: on_data_loaded adds the *)
(* row of another record than the one that arrived.                         *)
HandlerCallsOtherRow(n) ==
    IF n.kind = "started"
    THEN <<Call("show_loading_and_clear", NoRun), Call("status_loading", NoRun)>>
    ELSE IF n.kind = "loaded"
    THEN IF FilterMatches(svcExp, n.run)
         THEN <<Call("add_run_row",
                     IF n.run = RunData("r2", "running")
                     THEN RunData("r1", "finished") ELSE RunData("r2", "running"))>>
         ELSE <<>>
    ELSE IF n.kind = "completed"
    THEN <<Call("hide_loading", NoRun), Call("status_completed", NoRun)>>
    ELSE <<Call("hide_loading", NoRun), Call("notify_error", NoRun)>>

(* Faulty variant of the DataObserverImpl handlers: on_data_loading_failed  *)
(* raises the error notice without hiding the loading indicator.            *)
HandlerCallsFailedKeepsLoading(n) ==
    IF n.kind = "started"
    THEN <<Call("show_loading_and_clear", NoRun), Call("status_loading", NoRun)>>
    ELSE IF n.kind = "loaded"
    THEN IF FilterMatches(svcExp, n.run) THEN <<Call("add_run_row", n.run)>> ELSE <<>>
    ELSE IF n.kind = "completed"
    THEN <<Call("hide_loading", NoRun), Call("status_completed", NoRun)>>
    ELSE <<Call("notify_error", NoRun)>>

(* The call_from_thread calls one DataObserverImpl handler makes, in order. *)
HandlerCalls(n) ==
    IF n.kind = "started"
    THEN <<Call("show_loading_and_clear", NoRun), Call("status_loading", NoRun)>>
    ELSE IF n.kind = "loaded"
    THEN IF FilterMatches(svcExp, n.run) THEN <<Call("add_run_row", n.run)>> ELSE <<>>
    ELSE IF n.kind = "completed"
    THEN <<Call("hide_loading", NoRun), Call("status_completed", NoRun)>>
    ELSE <<Call("hide_loading", NoRun), Call("notify_error", NoRun)>>

(* Where the load continues after a notify_* method returns. *)
Continue(n) == IF n.kind \in {"started", "loaded"} THEN "loop" ELSE "idle"

(* The observer loop `for obs in self._observers` of a notify_* method, at  *)
(* position i of the list, with q the marshal queue.  The handler of the    *)
(* observer runs up to its first call_from_thread, which hands the call to  *)
(* the foreground and blocks.  Past the end of the list, or when the        *)
(* handlers make no call, the method returns: fetch_runs re-raises after    *)
(* notify_data_loading_failed, RunService.load_runs does not.               *)
ObserverLoop(w, n, i, q) ==
    IF i > Len(observers) \/ HandlerCalls(n) = <<>>
    THEN /\ note' = [note EXCEPT ![w] = NoNote]
         /\ idx' = [idx EXCEPT ![w] = 0]
         /\ calls' = [calls EXCEPT ![w] = <<>>]
         /\ posted' = [posted EXCEPT ![w] = FALSE]
         /\ marshal' = q
         /\ pc' = [pc EXCEPT ![w] = Continue(n)]
         /\ escaped' = [escaped EXCEPT ![w] =
                           IF n.kind = "failed" /\ entry[w] = "model" THEN n.err ELSE @]
    ELSE /\ note' = [note EXCEPT ![w] = n]
         /\ idx' = [idx EXCEPT ![w] = i]
         /\ calls' = [calls EXCEPT ![w] = HandlerCalls(n)]
         /\ posted' = [posted EXCEPT ![w] = TRUE]
         /\ marshal' = Append(q, [w |-> w, call |-> Head(HandlerCalls(n))])
         /\ pc' = [pc EXCEPT ![w] = "notify"]
         /\ UNCHANGED escaped

(* A notify_* method of WandbRunsModel is called on thread w. *)
Emit(w, n, len) ==
    /\ events' = [events EXCEPT ![w] = Append(@, Event(w, n, len))]
    /\ ObserverLoop(w, n, 1, marshal)

(* RunsController.load_runs -> RunService.load_runs (entry "service"), or   *)
(* WandbRunsModel.load_runs -> WandbApiDataSource.fetch_runs (entry         *)
(* "model"), called on a worker thread.                                     *)
CallLoad(w, e) ==
    /\ pc[w] = "idle"
    /\ \A v \in Workers : Before(v, w) => pc[v] # "idle"
    /\ ncycles < MaxCycles
    /\ events' = [events EXCEPT ![w] = <<>>]
    /\ ncycles' = ncycles + 1
    /\ entry' = [entry EXCEPT ![w] = e]
    /\ cyc' = [cyc EXCEPT ![w] = ncycles + 1]
    /\ count' = [count EXCEPT ![w] = 0]
    /\ fetched' = [fetched EXCEPT ![w] = 0]
    /\ escaped' = [escaped EXCEPT ![w] = NoError]
    /\ pc' = [pc EXCEPT ![w] = IF e = "service" THEN "clear" ELSE "start"]
    /\ UNCHANGED <<note, idx, calls, posted>>
    /\ UNCHANGED <<modelVars, svcVars, observers, uiVars>>
    /\ rowLog' = [rowLog EXCEPT ![w] = <<>>]
    /\ UNCHANGED delivery

(* Faulty variant of the clear step of RunService.load_runs: the worker     *)
(* thread clears the table widget itself.                                   *)
ClearStepAndTable(w) ==
    /\ pc[w] = "clear"
    /\ runs' = <<>>
    /\ runsCycle' = <<>>
    /\ table' = <<>>
    /\ pc' = [pc EXCEPT ![w] = "start"]
    /\ UNCHANGED <<entry, cyc, count, fetched, note, idx, calls, posted, escaped>>
    /\ UNCHANGED <<modelExp, filterError, edits, found, svcVars, observers>>
    /\ UNCHANGED <<marshal, loadingVisible, tableStatus, editorStatus, notices>>
    /\ UNCHANGED <<events, ncycles>>
    /\ UNCHANGED <<rowLog, delivery>>

(* RunService.load_runs: model.clear_runs() *)
ClearStep(w) ==
    /\ pc[w] = "clear"
    /\ runs' = <<>>
    /\ runsCycle' = <<>>
    /\ pc' = [pc EXCEPT ![w] = "start"]
    /\ UNCHANGED <<entry, cyc, count, fetched, note, idx, calls, posted, escaped>>
    /\ UNCHANGED <<modelExp, filterError, edits, found, svcVars, observers, uiVars>>
    /\ UNCHANGED <<events, ncycles>>
    /\ UNCHANGED <<rowLog, delivery>>

(* notify_data_loading_started, from either entry point *)
StartStep(w) ==
    /\ pc[w] = "start"
    /\ Emit(w, Note("started", NoRun, 0, NoError), Len(runs))
    /\ UNCHANGED <<entry, cyc, count, fetched>>
    /\ UNCHANGED <<modelVars, svcVars, observers, ncycles>>
    /\ UNCHANGED <<table, loadingVisible, tableStatus, editorStatus, notices>>
    /\ UNCHANGED <<rowLog, delivery>>

(* The repository sequence yields a record.  RunService.load_runs calls     *)
(* model.add_run, which WandbRunsModel does not define: the AttributeError  *)
(* is caught by its except clause.  fetch_runs calls notify_data_loaded,    *)
(* which appends the record and runs the observer loop.                     *)
YieldStep(w, r) ==
    /\ pc[w] = "loop"
    /\ fetched[w] < MaxFetch
    /\ fetched' = [fetched EXCEPT ![w] = @ + 1]
    /\ IF entry[w] = "service"
       THEN /\ Emit(w, Note("failed", NoRun, 0, "AttributeError"), Len(runs))
            /\ UNCHANGED <<runs, runsCycle, count>>
       ELSE /\ runs' = Append(runs, r)
            /\ runsCycle' = Append(runsCycle, cyc[w])
            /\ count' = [count EXCEPT ![w] = @ + 1]
            /\ Emit(w, Note("loaded", r, 0, NoError), Len(runs) + 1)
    /\ UNCHANGED <<entry, cyc>>
    /\ UNCHANGED <<modelExp, filterError, edits, found, svcVars, observers, ncycles>>
    /\ UNCHANGED <<table, loadingVisible, tableStatus, editorStatus, notices>>
    /\ UNCHANGED <<rowLog, delivery>>

(* The repository sequence is exhausted. *)
ExhaustStep(w) ==
    /\ pc[w] = "loop"
    /\ Emit(w, Note("completed", NoRun, count[w], NoError), Len(runs))
    /\ UNCHANGED <<entry, cyc, count, fetched>>
    /\ UNCHANGED <<modelVars, svcVars, observers, ncycles>>
    /\ UNCHANGED <<table, loadingVisible, tableStatus, editorStatus, notices>>
    /\ UNCHANGED <<rowLog, delivery>>

(* The repository raises. *)
RaiseStep(w) ==
    /\ pc[w] = "loop"
    /\ Emit(w, Note("failed", NoRun, 0, "FetchError"), Len(runs))
    /\ UNCHANGED <<entry, cyc, count, fetched>>
    /\ UNCHANGED <<modelVars, svcVars, observers, ncycles>>
    /\ UNCHANGED <<table, loadingVisible, tableStatus, editorStatus, notices>>
    /\ UNCHANGED <<rowLog, delivery>>

(* The handler's next call_from_thread. *)
Post(w) ==
    /\ pc[w] = "notify"
    /\ calls[w] # <<>>
    /\ ~posted[w]
    /\ posted' = [posted EXCEPT ![w] = TRUE]
    /\ marshal' = Append(marshal, [w |-> w, call |-> Head(calls[w])])
    /\ UNCHANGED <<pc, entry, cyc, count, fetched, note, idx, calls, escaped>>
    /\ UNCHANGED <<modelVars, svcVars, observers, events, ncycles>>
    /\ UNCHANGED <<table, loadingVisible, tableStatus, editorStatus, notices>>
    /\ UNCHANGED <<rowLog, delivery>>

(* The foreground runs the oldest marshalled call: _show_loading_and_clear, *)
(* StatusBar.update_status, _add_run_row, _hide_loading or App.notify.  The *)
(* table is the list of rows added since the last clear; the row keys of    *)
(* the DataTable widget are not modelled.  The                              *)
(* blocked call_from_thread of the worker returns; after the last call of   *)
(* a handler the observer loop goes on with the next observer.              *)
Drain ==
    /\ marshal # <<>>
    /\ LET w == Head(marshal).w
           c == Head(marshal).call
       IN  /\ table' = IF c.op = "show_loading_and_clear" THEN <<>>
                       ELSE IF c.op = "add_run_row" THEN Append(table, c.run)
                       ELSE table
           /\ loadingVisible' = IF c.op = "show_loading_and_clear" THEN TRUE
                                ELSE IF c.op = "hide_loading" THEN FALSE
                                ELSE loadingVisible
           /\ tableStatus' = IF c.op = "status_loading" THEN "Loading runs..."
                             ELSE IF c.op = "status_completed" THEN "Loading completed"
                             ELSE tableStatus
           /\ notices' = IF c.op = "notify_error" THEN notices + 1 ELSE notices
           /\ IF Len(calls[w]) > 1
              THEN /\ calls' = [calls EXCEPT ![w] = Tail(@)]
                   /\ posted' = [posted EXCEPT ![w] = FALSE]
                   /\ marshal' = Tail(marshal)
                   /\ UNCHANGED <<pc, note, idx, escaped>>
              ELSE ObserverLoop(w, note[w], idx[w] + 1, Tail(marshal))
    /\ UNCHANGED editorStatus
    /\ UNCHANGED <<entry, cyc, count, fetched>>
    /\ UNCHANGED <<modelVars, svcVars, observers, events, ncycles>>
    /\ rowLog' = IF Head(marshal).call.op = "add_run_row"
                 THEN [rowLog EXCEPT ![Head(marshal).w] = Append(@, Head(marshal).call.run)]
                 ELSE rowLog
    /\ UNCHANGED delivery

(* RunsController.on_filter_editor_changed -> RunService.update_filter, on  *)
(* the foreground.  update_query sets the service's own filter; then        *)
(* model.get_all_runs, which WandbRunsModel does not define, raises an      *)
(* AttributeError in the try body or in the except clause, so no            *)
(* notify_filter_changed is made.                                           *)
UpdateFilter(q) ==
    /\ svcExp' = UpdateQuery(svcExp, q).exp
    /\ edits' = Append(edits, [via |-> "service", text |-> q, mid |-> InFlight])
    /\ UNCHANGED <<runs, runsCycle, modelExp, filterError, found, observers>>
    /\ UNCHANGED <<threadVars, uiVars, events, ncycles>>
    /\ UNCHANGED <<rowLog, delivery>>

(* The filter texts typed in Spec. *)
UiTexts == { <<Space, "state", "==", "'running'", Space>>, <<"state", "==">> }

(* The state after RunsController.__init__ registered its observer, the     *)
(* model constructed with an empty filter text.                             *)
Init ==
    /\ InitModelState
    /\ modelExp = FilterInit(<<>>)
    /\ observers = <<"ui">>
    /\ InitService
    /\ InitThreads
    /\ InitUi
    /\ InitHistory

Next ==
    \/ \E w \in Workers, e \in {"service", "model"} : CallLoad(w, e)
    \/ \E w \in Workers : ClearStep(w)
    \/ \E w \in Workers : StartStep(w)
    \/ \E w \in Workers, r \in RemoteRuns : YieldStep(w, r)
    \/ \E w \in Workers : ExhaustStep(w)
    \/ \E w \in Workers : RaiseStep(w)
    \/ \E w \in Workers : Post(w)
    \/ Drain
    \/ \E q \in UiTexts : Len(edits) < MaxUiEdits /\ EditFilter(q)
    \/ \E q \in UiTexts : Len(edits) < MaxUiEdits /\ UpdateFilter(q)

Spec == Init /\ [][Next]_vars

----------------------------------------------------------------------------
(* Properties.  SpecModel properties speak of edits made with edit_filter. *)

TextFails(q) == Strip(q) # <<>> /\ ~Compile(Strip(q)).ok

IsBlank(q) == \A i \in 1..Len(q) : q[i] = Space

LastEdit == Last(edits)

ModelEdited == edits # <<>> /\ LastEdit.via = "model"

(* C1, as claimed: an edit_filter call whose text fails to compile reports *)
(* a compile error and leaves the predicate, and so the filtered view,     *)
(* as they were just before the call.                                      *)
C1_FailedEditKeepsPredicate ==
    [][(Len(edits') = Len(edits) + 1 /\ Last(edits').via = "model"
            /\ TextFails(Last(edits').text))
        => (/\ filterError' = "FilterError"
            /\ modelExp' = modelExp
            /\ GetFilteredRuns' = GetFilteredRuns)]_vars

(* What it means for a record to satisfy a predicate, stated on the record. *)
Satisfies(exp, r) ==
    \/ exp = NoExp
    \/ exp.kind = "eq" /\ exp.field \in DOMAIN r /\ r[exp.field] = exp.lit
    \/ exp.kind = "field" /\ exp.field \in DOMAIN r /\ r[exp.field] # ""

SatisfiesCurrent(r) == Satisfies(modelExp, r)

(* C4: in every reachable state get_filtered_runs is the subsequence of    *)
(* the record list, in insertion order, of the records that satisfy the    *)
(* current predicate, and the whole list when no predicate is installed.   *)
C4_FilteredViewExact ==
    /\ GetFilteredRuns = SelectSeq(runs, SatisfiesCurrent)
    /\ modelExp = NoExp => GetFilteredRuns = runs

(* A predicate is installed by an edit and the list holds records on both  *)
(* sides of it.                                                            *)
C4_Witness ==
    /\ ModelEdited
    /\ modelExp.kind = "eq"
    /\ Len(runs) = 3
    /\ Len(GetFilteredRuns) = 2
    /\ GetFilteredRuns = <<runs[1], runs[3]>>

IndicesOf(rs, run_id) == {i \in 1..Len(rs) : rs[i].id = run_id}

Least(S) == CHOOSE i \in S : \A j \in S : i <= j

Greatest(S) == CHOOSE i \in S : \A j \in S : j <= i

(* C9, as claimed: find_run_by_id returns the most recently appended       *)
(* record with the id, and not-found when no record carries it.            *)
C9_FindsMostRecent ==
    \A i \in RunIds :
        FindRunById(runs, i) =
            IF IndicesOf(runs, i) = {} THEN NoRun ELSE runs[Greatest(IndicesOf(runs, i))]

(* C9, amended: find_run_by_id returns the earliest appended record with   *)
(* the id, and not-found when no record carries it.                        *)
Earliest(rs, run_id) ==
    IF IndicesOf(rs, run_id) = {} THEN NoRun ELSE rs[Least(IndicesOf(rs, run_id))]

C9_FindsEarliest ==
    /\ [](\A i \in RunIds : FindRunById(runs, i) = Earliest(runs, i))
    /\ [][found' # found => found'.run = Earliest(runs, found'.id)]_vars

(* A lookup of an id that two different records of the list carry, and a   *)
(* lookup that found nothing.                                              *)
C9_Witness ==
    /\ Cardinality(IndicesOf(runs, "r1")) >= 2
    /\ runs[Least(IndicesOf(runs, "r1"))] # runs[Greatest(IndicesOf(runs, "r1"))]
    /\ found.id = "r1"
    /\ found.run = runs[Least(IndicesOf(runs, "r1"))]

(* C10: after edit_filter(t) followed by edit_filter of an empty or        *)
(* whitespace-only text, no error is reported, no predicate is installed   *)
(* and the filtered view is the full record list in insertion order.       *)
C10_BlankEditRestoresAll ==
    (ModelEdited /\ IsBlank(LastEdit.text))
        => (/\ filterError = NoError
            /\ modelExp = NoExp
            /\ GetFilteredRuns = runs)

(* A whitespace-only edit follows an edit that installed a predicate       *)
(* hiding a record of the list.                                            *)
C10_Witness ==
    /\ Len(edits) >= 2
    /\ ModelEdited
    /\ LastEdit.text = <<Space>>
    /\ Compile(Strip(edits[Len(edits) - 1].text)).exp.kind = "eq"
    /\ \E i \in 1..Len(runs) :
          ~FilterMatches(Compile(Strip(edits[Len(edits) - 1].text)).exp, runs[i])
    /\ GetFilteredRuns = runs

(* A whitespace-only edit follows an edit that failed to compile.          *)
C10_WitnessAfterInvalid ==
    /\ Len(edits) >= 2
    /\ ModelEdited
    /\ IsBlank(LastEdit.text)
    /\ TextFails(edits[Len(edits) - 1].text)
    /\ filterError = NoError

----------------------------------------------------------------------------
(* Properties of the load cycle, under Spec. *)

NumLoaded(w) == Cardinality({i \in 1..Len(events[w]) : events[w][i].kind = "loaded"})

Drained == marshal = <<>> /\ \A w \in Workers : pc[w] = "idle"

(* C2, as claimed: while a load cycle is active, a load call made on       *)
(* another thread is a no-op: its steps leave the record list as it is     *)
(* and emit no notification, and the records of two cycles are never       *)
(* interleaved in the list.                                                *)
C2_SecondLoadIsNoOp ==
    [][/\ \A w \in Workers :
            (/\ pc[w] \in {"clear", "start"}
             /\ pc'[w] # pc[w]
             /\ \E v \in Workers \ {w} : Active(v))
            => (runs' = runs /\ events'[w] = events[w])
       /\ \A i, j, k \in 1..Len(runsCycle') :
            (i < j /\ j < k /\ runsCycle'[i] = runsCycle'[k])
            => runsCycle'[j] = runsCycle'[i]]_vars

(* The predicate the latest filter edit installed. *)
LatestExp == IF LastEdit.via = "model" THEN modelExp ELSE svcExp

(* C3, as claimed: after a filter edit made while a load cycle was in      *)
(* flight, once the loads have ended and every marshalled call has run,    *)
(* the table rows are the records of the model that match the latest       *)
(* predicate, each once, in order.                                         *)
C3_TableMatchesLatestFilter ==
    (Drained /\ edits # <<>> /\ LastEdit.mid)
        => table = Comprehension(runs, LatestExp)

(* C5, as claimed: the notifications of one load cycle are loading-started *)
(* first and only first, then one data-loaded per fetched record, then the *)
(* terminal notification, after which nothing of the cycle follows.        *)
C5_CycleEventOrder ==
    \A w \in Workers :
        /\ events[w] # <<>> => events[w][1].kind = "started"
        /\ \A i \in 2..Len(events[w]) : events[w][i].kind # "started"
        /\ \A i \in 1..Len(events[w]) : Terminal(events[w][i]) => i = Len(events[w])
        /\ \A i \in 1..Len(events[w]) : Terminal(events[w][i]) => NumLoaded(w) = fetched[w]

(* C6, as claimed: when the repository raises after yielding k records,    *)
(* loading-failed ends the cycle, no loading-completed is emitted and the  *)
(* record list holds exactly the k records of the cycle.                   *)
C6_FailureKeepsPartialRecords ==
    \A w \in Workers : \A i \in 1..Len(events[w]) :
        (events[w][i].kind = "failed" /\ events[w][i].err = "FetchError")
        => (/\ i = Len(events[w])
            /\ \A j \in 1..Len(events[w]) : events[w][j].kind # "completed"
            /\ events[w][i].len = fetched[w]
            /\ NumLoaded(w) = fetched[w])

(* C7, as claimed: the record list is empty whenever loading-started is    *)
(* emitted, and once the loads have ended the list holds records of the    *)
(* latest cycle only.                                                      *)
C7_CycleStartsFromScratch ==
    /\ \A w \in Workers : \A i \in 1..Len(events[w]) :
          events[w][i].kind = "started" => events[w][i].len = 0
    /\ Drained => \A i \in 1..Len(runsCycle) : runsCycle[i] = ncycles

(* C8, as claimed: loading-completed carries the number of records the     *)
(* repository yielded in the cycle, and the record list then has exactly   *)
(* that many elements.                                                     *)
C8_CompletedCountIsListLength ==
    \A w \in Workers : \A i \in 1..Len(events[w]) :
        events[w][i].kind = "completed"
        => (/\ events[w][i].total = fetched[w]
            /\ events[w][i].len = events[w][i].total)

----------------------------------------------------------------------------
(* Properties of the marshalled UI work, under Spec. *)

IsLoaded(e) == e.kind = "loaded"

(* The records of the data-loaded notifications of w's cycle, in fetch order. *)
RECURSIVE RunsOf(_)
RunsOf(es) == IF es = <<>> THEN <<>> ELSE <<Head(es).run>> \o RunsOf(Tail(es))

LoadedRuns(w) == RunsOf(SelectSeq(events[w], IsLoaded))

(* s is t with some elements left out. *)
RECURSIVE IsSubseq(_, _)
IsSubseq(s, t) ==
    IF s = <<>> THEN TRUE
    ELSE IF t = <<>> THEN FALSE
    ELSE IF Head(s) = Head(t) THEN IsSubseq(Tail(s), Tail(t))
    ELSE IsSubseq(s, Tail(t))

(* C11: the rows a load cycle has added to the table, in the order the     *)
(* foreground added them, are records of the cycle in fetch order: of two  *)
(* displayed records the one fetched first was added first.                *)
C11_RowsInFetchOrder ==
    \A w \in Workers : IsSubseq(rowLog[w], LoadedRuns(w))

(* A cycle has added the rows of two different records while another load  *)
(* cycle was running.                                                      *)
C11_Witness ==
    \E w \in Workers :
        /\ Len(rowLog[w]) = 2
        /\ rowLog[w][1] # rowLog[w][2]
        /\ \E v \in Workers \ {w} : events[v] # <<>>

----------------------------------------------------------------------------
(* SpecObs: WandbRunsModel with any DataObserver implementations            *)
(* registered.  One thread calls add_observer, remove_observer, clear_runs, *)
(* edit_filter and both load entry points; every callback runs on that      *)
(* thread inside the notify_* method, and it returns, removes its own       *)
(* observer, registers another observer, or raises.                         *)

Caller == "w1"

ObserverIds == {"a", "b"}

Behaviours == {"return", "remove_self", "add", "raise"}

MaxObservers == 2   \* SpecObs: longest observer list

(* list.remove: deletes the first occurrence. *)
RECURSIVE ListRemove(_, _)
ListRemove(s, o) ==
    IF s = <<>> THEN <<>>
    ELSE IF Head(s) = o THEN Tail(s)
    ELSE <<Head(s)>> \o ListRemove(Tail(s), o)

Range(s) == {s[i] : i \in 1..Len(s)}

(* WandbRunsModel.add_observer: appends, whether or not o is in the list.   *)
AddObserver(o) ==
    /\ pc[Caller] = "idle"
    /\ Len(observers) < MaxObservers
    /\ observers' = Append(observers, o)
    /\ UNCHANGED <<modelVars, svcVars, threadVars, uiVars, events, ncycles>>
    /\ UNCHANGED <<rowLog, delivery>>

(* WandbRunsModel.remove_observer *)
RemoveObserver(o) ==
    /\ pc[Caller] = "idle"
    /\ observers' = IF o \in Range(observers) THEN ListRemove(observers, o) ELSE observers
    /\ UNCHANGED <<modelVars, svcVars, threadVars, uiVars, events, ncycles>>
    /\ UNCHANGED <<rowLog, delivery>>

(* A notify_* method starts its loop `for obs in self._observers`: the list *)
(* iterator stands before the first position of the live list.              *)
Deliver(n) ==
    /\ pc' = [pc EXCEPT ![Caller] = "notify"]
    /\ note' = [note EXCEPT ![Caller] = n]
    /\ idx' = [idx EXCEPT ![Caller] = 1]
    /\ delivery' = [n |-> n, start |-> observers, log |-> <<>>, state |-> "running"]

(* A lifecycle notify_* method is called by a load. *)
NotifyLoad(n, len) ==
    /\ events' = [events EXCEPT ![Caller] = Append(@, Event(Caller, n, len))]
    /\ Deliver(n)

(* The iterator yields the observer at its position of the live list and    *)
(* moves on by one; the callback of that observer runs with behaviour b.    *)
(* An exception raised by a callback leaves the notify_* method: inside the *)
(* try block of the load (data-loaded, loading-completed) it reaches the    *)
(* except clause, anywhere else it leaves the call.                         *)
Callback(b, x) ==
    /\ pc[Caller] = "notify"
    /\ delivery.state = "running"
    /\ idx[Caller] <= Len(observers)
    /\ b = "add" => Len(observers) < MaxObservers
    /\ LET o == observers[idx[Caller]]
       IN  /\ delivery' = [delivery EXCEPT
                              !.log = Append(@, [obs |-> o,
                                                 last |-> IF runs = <<>> THEN NoRun
                                                          ELSE Last(runs)]),
                              !.state = IF b = "raise" THEN "raised" ELSE @]
           /\ observers' = IF b = "remove_self" THEN ListRemove(observers, o)
                           ELSE IF b = "add" THEN Append(observers, x)
                           ELSE observers
    /\ idx' = [idx EXCEPT ![Caller] = @ + 1]
    /\ pc' = [pc EXCEPT ![Caller] =
                 IF b # "raise" THEN @
                 ELSE IF note[Caller].kind \in {"loaded", "completed"} THEN "except"
                 ELSE "idle"]
    /\ escaped' = [escaped EXCEPT ![Caller] =
                      IF b = "raise" /\ note[Caller].kind \notin {"loaded", "completed"}
                      THEN "CallbackError" ELSE @]
    /\ UNCHANGED <<entry, cyc, count, fetched, note, calls, posted>>
    /\ UNCHANGED <<modelVars, svcVars, uiVars, events, ncycles, rowLog>>

(* The iterator is past the end of the live list: the notify_* method       *)
(* returns.  fetch_runs re-raises after notify_data_loading_failed.         *)
NotifyReturn ==
    /\ pc[Caller] = "notify"
    /\ delivery.state = "running"
    /\ idx[Caller] > Len(observers)
    /\ delivery' = [delivery EXCEPT !.state = "returned"]
    /\ pc' = [pc EXCEPT ![Caller] = Continue(note[Caller])]
    /\ escaped' = [escaped EXCEPT ![Caller] =
                      IF note[Caller].kind = "failed" /\ entry[Caller] = "model"
                      THEN note[Caller].err ELSE @]
    /\ UNCHANGED <<entry, cyc, count, fetched, note, idx, calls, posted>>
    /\ UNCHANGED <<modelVars, svcVars, observers, uiVars, events, ncycles, rowLog>>

(* notify_data_loading_started, from either entry point *)
ObsStartStep ==
    /\ pc[Caller] = "start"
    /\ NotifyLoad(Note("started", NoRun, 0, NoError), Len(runs))
    /\ UNCHANGED <<entry, cyc, count, fetched, calls, posted, escaped>>
    /\ UNCHANGED <<modelVars, svcVars, observers, uiVars, ncycles, rowLog>>

(* The repository yields a record: model.add_run raises in                  *)
(* RunService.load_runs, fetch_runs calls notify_data_loaded.               *)
ObsYieldStep(r) ==
    /\ pc[Caller] = "loop"
    /\ fetched[Caller] < MaxFetch
    /\ fetched' = [fetched EXCEPT ![Caller] = @ + 1]
    /\ IF entry[Caller] = "service"
       THEN /\ NotifyLoad(Note("failed", NoRun, 0, "AttributeError"), Len(runs))
            /\ UNCHANGED <<runs, runsCycle, count>>
       ELSE /\ runs' = Append(runs, r)
            /\ runsCycle' = Append(runsCycle, cyc[Caller])
            /\ count' = [count EXCEPT ![Caller] = @ + 1]
            /\ NotifyLoad(Note("loaded", r, 0, NoError), Len(runs) + 1)
    /\ UNCHANGED <<entry, cyc, calls, posted, escaped>>
    /\ UNCHANGED <<modelExp, filterError, edits, found, svcVars, observers>>
    /\ UNCHANGED <<uiVars, ncycles, rowLog>>

(* The repository sequence is exhausted. *)
ObsExhaustStep ==
    /\ pc[Caller] = "loop"
    /\ NotifyLoad(Note("completed", NoRun, count[Caller], NoError), Len(runs))
    /\ UNCHANGED <<entry, cyc, count, fetched, calls, posted, escaped>>
    /\ UNCHANGED <<modelVars, svcVars, observers, uiVars, ncycles, rowLog>>

(* The repository raises. *)
ObsRaiseStep ==
    /\ pc[Caller] = "loop"
    /\ NotifyLoad(Note("failed", NoRun, 0, "FetchError"), Len(runs))
    /\ UNCHANGED <<entry, cyc, count, fetched, calls, posted, escaped>>
    /\ UNCHANGED <<modelVars, svcVars, observers, uiVars, ncycles, rowLog>>

(* The except clause of the load, entered by the exception of a callback.   *)
ObsExceptStep ==
    /\ pc[Caller] = "except"
    /\ NotifyLoad(Note("failed", NoRun, 0, "CallbackError"), Len(runs))
    /\ UNCHANGED <<entry, cyc, count, fetched, calls, posted, escaped>>
    /\ UNCHANGED <<modelVars, svcVars, observers, uiVars, ncycles, rowLog>>

(* WandbRunsModel.edit_filter up to the loop of notify_filter_changed. *)
ObsEditFilter(q) ==
    /\ pc[Caller] = "idle"
    /\ LET r == UpdateQuery(modelExp, q)
       IN  /\ modelExp' = r.exp
           /\ filterError' = r.err
           /\ Deliver(Note("filter", NoRun, 0, r.err))
    /\ edits' = Append(edits, [via |-> "model", text |-> q, mid |-> FALSE])
    /\ UNCHANGED <<runs, runsCycle, found, svcVars, observers>>
    /\ UNCHANGED <<entry, cyc, count, fetched, calls, posted, escaped>>
    /\ UNCHANGED <<uiVars, events, ncycles, rowLog>>

InitObs ==
    /\ InitModelState
    /\ modelExp = FilterInit(<<>>)
    /\ observers = <<>>
    /\ InitService
    /\ InitThreads
    /\ InitUi
    /\ InitHistory

NextObs ==
    \/ \E o \in ObserverIds : AddObserver(o)
    \/ \E o \in ObserverIds : RemoveObserver(o)
    \/ pc[Caller] = "idle" /\ ClearRuns
    \/ \E q \in UiTexts : Len(edits) < MaxUiEdits /\ ObsEditFilter(q)
    \/ \E e \in {"service", "model"} : CallLoad(Caller, e)
    \/ ClearStep(Caller)
    \/ ObsStartStep
    \/ \E r \in RemoteRuns : ObsYieldStep(r)
    \/ ObsExhaustStep
    \/ ObsRaiseStep
    \/ ObsExceptStep
    \/ \E b \in Behaviours, x \in ObserverIds : Callback(b, x)
    \/ NotifyReturn

SpecObs == InitObs /\ [][NextObs]_vars

----------------------------------------------------------------------------
(* Properties of the observer loop, under SpecObs. *)

NoDup(s) == \A i, j \in 1..Len(s) : s[i] = s[j] => i = j

(* The observers called in the notification delivered last, in call order. *)
RECURSIVE ObsOf(_)
ObsOf(log) == IF log = <<>> THEN <<>> ELSE <<Head(log).obs>> \o ObsOf(Tail(log))

Calls(o) == Cardinality({i \in 1..Len(delivery.log) : delivery.log[i].obs = o})

(* C12, as claimed: when a notify_* method has returned, every observer    *)
(* that was registered when it began has been called exactly once, also    *)
(* when a callback removed its own observer, and no observer registered    *)
(* during the delivery has been called.                                    *)
C12_MembershipChangeIsDeferred ==
    (delivery.state = "returned" /\ NoDup(delivery.start))
        => (/\ \A o \in Range(delivery.start) : Calls(o) = 1
            /\ \A o \in Range(ObsOf(delivery.log)) : o \in Range(delivery.start))

----------------------------------------------------------------------------
(* Properties of the assembled program, under Spec. *)

NumFailed(w) == Cardinality({i \in 1..Len(events[w]) : events[w][i].kind = "failed"})

(* The load call of w returns from its loading-failed notification. *)
FailedCycleEnds(w) ==
    /\ pc[w] = "notify"
    /\ note[w].kind = "failed"
    /\ pc'[w] = "idle"

(* Every error notice is the one notice of a failed cycle. *)
NoticeOncePerFailure ==
    /\ notices' # notices =>
          /\ notices' = notices + 1
          /\ marshal # <<>>
          /\ NumFailed(Head(marshal).w) = 1
    /\ \A w \in Workers : FailedCycleEnds(w) => notices' = notices + 1

(* C13, as claimed: no exception leaves a load call, a failure of the      *)
(* repository reaches the foreground as the error of loading-failed, and   *)
(* each failed cycle raises exactly one error notice.                      *)
C13_FailureOnlyInNotification ==
    /\ [](\A w \in Workers : escaped[w] = NoError)
    /\ [][NoticeOncePerFailure]_vars

RenderingChanged ==
    \/ table' # table
    \/ loadingVisible' # loadingVisible
    \/ tableStatus' # tableStatus
    \/ notices' # notices

(* The step is the foreground running the oldest marshalled call, and what *)
(* it changes is what that call changes.                                   *)
ForegroundRunsCall ==
    /\ marshal # <<>>
    /\ marshal' = Tail(marshal)
    /\ LET op == Head(marshal).call.op
       IN  /\ table' # table => op \in {"show_loading_and_clear", "add_run_row"}
           /\ loadingVisible' # loadingVisible
                 => op \in {"show_loading_and_clear", "hide_loading"}
           /\ tableStatus' # tableStatus => op \in {"status_loading", "status_completed"}
           /\ notices' # notices => op = "notify_error"

(* C14: the table, the loading indicator, the table status line and the    *)
(* error notices change only in a step in which the foreground runs a      *)
(* marshalled call; a step of a worker thread changes none of them.  The   *)
(* filter edits of the foreground are not load notifications.              *)
C14_RenderingOnlyOnForeground ==
    [][RenderingChanged => (Len(edits') > Len(edits) \/ ForegroundRunsCall)]_vars

(* Marshalled calls of two load cycles have run: the table holds a row,    *)
(* the indicator is hidden, an error notice was raised and the status line *)
(* shows the loading text.                                                 *)
C14_Witness ==
    /\ notices > 0
    /\ table # <<>>
    /\ ~loadingVisible
    /\ tableStatus = "Loading runs..."
    /\ ncycles = 2

----------------------------------------------------------------------------
(* Properties of the model's methods with observers registered, under      *)
(* SpecObs.                                                                *)

(* C15: a step that shortens the record list, which only clear_runs does,  *)
(* leaves the list empty and leaves the observer list, the predicate and   *)
(* the notification records as they were, so no observer is notified; and  *)
(* clear_runs called on an empty list changes nothing at all.              *)
C15_ClearRunsFrame ==
    [][/\ Len(runs') < Len(runs) =>
            /\ runs' = <<>>
            /\ UNCHANGED <<observers, modelExp, filterError, delivery, events>>
       /\ (runs = <<>> /\ ClearRuns) => UNCHANGED vars]_vars

(* clear_runs has just run in a load that follows a cycle which completed  *)
(* with records, with observers registered and a predicate installed.      *)
C15_Witness ==
    /\ pc[Caller] = "start"
    /\ entry[Caller] = "service"
    /\ runs = <<>>
    /\ observers # <<>>
    /\ modelExp # NoExp
    /\ delivery.state = "returned"
    /\ delivery.n.kind = "completed"
    /\ delivery.n.total > 0

----------------------------------------------------------------------------
(* Properties of the filter edits of the assembled program, under Spec.    *)

(* The error a filter-changed notification for text q has to carry. *)
ErrorOf(q) == IF TextFails(q) THEN "FilterError" ELSE NoError

(* C16, as claimed: every filter edit, through edit_filter or through      *)
(* update_filter, makes one filter-changed notification to the registered  *)
(* observer: it carries the compile error when the text did not compile    *)
(* and no error when it did, the editor status line shows it and the table *)
(* is rebuilt from the filtered view.                                      *)
C16_EditAlwaysNotifies ==
    [][Len(edits') = Len(edits) + 1 =>
          /\ filterError' = ErrorOf(Last(edits').text)
          /\ editorStatus' = (IF TextFails(Last(edits').text) THEN "Invalid Filter" ELSE "")
          /\ table' = GetFilteredRuns']_vars

(* C17, as claimed: in a notify_data_loaded call every callback runs with  *)
(* the new record already at the end of the list, and when the call has    *)
(* returned the observers called are the observers registered when it      *)
(* began, each once per registration, in registration order.               *)
C17_LoadedReachesEveryObserver ==
    delivery.n.kind = "loaded"
        => (/\ \A i \in 1..Len(delivery.log) : delivery.log[i].last = delivery.n.run
            /\ delivery.state = "returned" => ObsOf(delivery.log) = delivery.start)

NumTerminal == Cardinality({i \in 1..Len(events[Caller]) : Terminal(events[Caller][i])})

(* C18, as claimed: a load cycle emits at most one terminal notification,  *)
(* and when its load call has ended it has emitted exactly one, whatever   *)
(* the repository and the callbacks of the observers did.                  *)
C18_ExactlyOneTerminal ==
    /\ NumTerminal <= 1
    /\ (pc[Caller] = "idle" /\ events[Caller] # <<>>) => NumTerminal = 1

(* C19, as claimed: RunService.run_matches_filter and the predicate behind *)
(* WandbRunsModel.get_filtered_runs give the same result for every record. *)
C19_FiltersAgree ==
    \A r \in RemoteRuns : FilterMatches(svcExp, r) = FilterMatches(modelExp, r)

----------------------------------------------------------------------------
(* SpecLive: the load cycles of the assembled program without filter edits, *)
(* with the scheduling the program relies on: the Textual event loop keeps  *)
(* running marshalled calls, a worker thread that can take a step takes it, *)
(* and the repository sequence ends or raises after finitely many records.  *)

WorkerStep(w) ==
    \/ ClearStep(w)
    \/ StartStep(w)
    \/ \E r \in RemoteRuns : YieldStep(w, r)
    \/ ExhaustStep(w)
    \/ RaiseStep(w)
    \/ Post(w)

NextLive ==
    \/ \E w \in Workers, e \in {"service", "model"} : CallLoad(w, e)
    \/ \E w \in Workers : WorkerStep(w)
    \/ Drain

Fairness ==
    /\ WF_vars(Drain)
    /\ \A w \in Workers : WF_vars(WorkerStep(w))

SpecLive == Init /\ [][NextLive]_vars /\ Fairness

(* The show call of w's loading-started has run. *)
ShownBy(w) ==
    /\ pc[w] = "notify"
    /\ note[w].kind = "started"
    /\ calls[w] = <<Call("status_loading", NoRun)>>
    /\ loadingVisible

(* The hide call of w's terminal notification has run. *)
HiddenBy(w) ==
    /\ pc[w] = "notify"
    /\ Terminal(note[w])
    /\ calls[w] # <<>>
    /\ Head(calls[w]).op # "hide_loading"
    /\ ~loadingVisible

(* C20: whenever the loading-started of a cycle has shown the loading      *)
(* indicator, the terminal notification of that cycle later hides it.      *)
C20_IndicatorEventuallyHidden ==
    \A w \in Workers : ShownBy(w) ~> HiddenBy(w)

(* The loading-failed of a cycle has hidden the indicator that the cycle's *)
(* loading-started had shown.                                              *)
C20_Witness ==
    \E w \in Workers :
        /\ HiddenBy(w)
        /\ note[w].kind = "failed"
        /\ events[w][1].kind = "started"

----------------------------------------------------------------------------
(* Property of the table status line, under Spec. *)

(* C21, as claimed: when no load is running and every marshalled call has  *)
(* run, the table status line does not show the loading text.              *)
C21_StatusNotLoadingWhenIdle ==
    Drained => tableStatus # "Loading runs..."

====
